---- MODULE Spec2Model ----
(***************************************************************************)
(* Reversible anonymization of ticket text (src/sanitization.py) and the   *)
(* custom recognizer builders (src/sanitization.py, src/entity-finder.py). *)
(*                                                                         *)
(* Strings are sequences of one-character strings, so that formatting a    *)
(* token ("<{entity_type}_{index}>") and parsing its index back            *)
(* (value.split("_")[-1][:-1], int) are computed the way the code does.    *)
(* A Python dict that the code iterates is a sequence of [key, val] pairs  *)
(* in insertion order with pairwise distinct keys.                         *)
(***************************************************************************)
EXTENDS Integers, Sequences, FiniteSets, TLC

VARIABLES
    entity_mapping,   \* entity type -> dict (original text -> token)
    returned,         \* every (entity_type, text, token) an anonymizer call returned
    last,             \* the last operator call: its arguments and its outcome
    ticket,           \* what anonymize_ticket returned for the last ticket
    restored,         \* what deanonymize_ticket returned (or raised)
    snapshot,         \* what save_entity_mapping built and returned
    recognizers       \* what the recognizer builders returned (or raised)

vars == <<entity_mapping, returned, last, ticket, restored, snapshot, recognizers>>

None == "None"

(***************************************************************************)
(* Entity type names and sample original values.                           *)
(***************************************************************************)
PERSON == <<"P", "E", "R", "S", "O", "N">>
PHONE_NUMBER == <<"P", "H", "O", "N", "E", "_", "N", "U", "M", "B", "E", "R">>

EntityTypes == {PERSON, PHONE_NUMBER}

Values == {<<"a">>, <<"b">>, <<"a", "b">>}

(***************************************************************************)
(* str(int) and int(str) for decimal numerals.                             *)
(***************************************************************************)
Digits == <<"0", "1", "2", "3", "4", "5", "6", "7", "8", "9">>

RECURSIVE str(_)
str(n) ==
    IF n < 0 THEN <<"-">> \o str(-n)
    ELSE IF n < 10 THEN <<Digits[n + 1]>>
    ELSE str(n \div 10) \o <<Digits[(n % 10) + 1]>>

IsDigit(c) == \E d \in 1..10 : Digits[d] = c

DigitValue(c) == (CHOOSE d \in 1..10 : Digits[d] = c) - 1

RECURSIVE NatOf(_)
NatOf(s) ==
    IF Len(s) = 0 THEN 0
    ELSE 10 * NatOf(SubSeq(s, 1, Len(s) - 1)) + DigitValue(s[Len(s)])

\* int(s) succeeds on an optionally signed, non-empty run of digits.
IsInt(s) ==
    LET body == IF Len(s) > 0 /\ s[1] \in {"-", "+"} THEN Tail(s) ELSE s
    IN  Len(body) > 0 /\ \A i \in 1..Len(body) : IsDigit(body[i])

int(s) ==
    IF s[1] = "-" THEN 0 - NatOf(Tail(s))
    ELSE IF s[1] = "+" THEN NatOf(Tail(s))
    ELSE NatOf(s)

(***************************************************************************)
(* Insertion-ordered dicts.                                                *)
(***************************************************************************)
EmptyDict == <<>>

Keys(d) == {d[i].key : i \in 1..Len(d)}

DictValues(d) == {d[i].val : i \in 1..Len(d)}

Get(d, k) == d[CHOOSE i \in 1..Len(d) : d[i].key = k].val

\* d[k] = v: an existing key keeps its place, a new key goes last.
Put(d, k, v) ==
    IF k \in Keys(d)
    THEN [i \in 1..Len(d) |-> IF d[i].key = k THEN [key |-> k, val |-> v] ELSE d[i]]
    ELSE Append(d, [key |-> k, val |-> v])

\* entity_mapping.get(entity_type)
MappingGet(mapping, entity_type) ==
    IF entity_type \in DOMAIN mapping THEN mapping[entity_type] ELSE None

\* Mutation of MappingSet: the whole mapping is rebuilt around one type.
Resetting_MappingSet(mapping, entity_type, d) ==
    [t \in {entity_type} |-> d]

\* entity_mapping[entity_type] = d
MappingSet(mapping, entity_type, d) ==
    [t \in (DOMAIN mapping) \cup {entity_type} |->
        IF t = entity_type THEN d ELSE mapping[t]]

EmptyMapping == [t \in {} |-> EmptyDict]

(***************************************************************************)
(* InstanceCounterAnonymizer                                               *)
(***************************************************************************)
REPLACING_FORMAT(entity_type, index) ==
    <<"<">> \o entity_type \o <<"_">> \o str(index) \o <<">">>

\* value.split("_")[-1]: what follows the last "_" (all of it when there is none)
LastPiece(value) ==
    LET cuts == {i \in 1..Len(value) : value[i] = "_"}
        from == IF cuts = {} THEN 0 ELSE CHOOSE i \in cuts : \A j \in cuts : j <= i
    IN  SubSeq(value, from + 1, Len(value))

\* s[:-1]
DropLast(s) == SubSeq(s, 1, Len(s) - 1)

IndexText(value) == DropLast(LastPiece(value))

get_index(value) == int(IndexText(value))

MaxOf(S) == CHOOSE m \in S : \A x \in S : x <= m

MinOf(S) == CHOOSE m \in S : \A x \in S : m <= x

\* Mutation of _get_last_index: the number of entries stands in for the maximum.
CountBased_get_last_index(entity_mapping_for_type) ==
    Len(entity_mapping_for_type) - 1

\* Mutation of _get_last_index: min() where the code has max().
Min_get_last_index(entity_mapping_for_type) ==
    LET indices == [i \in 1..Len(entity_mapping_for_type) |->
                        get_index(entity_mapping_for_type[i].val)]
    IN  IF Len(indices) = 0 THEN -1
        ELSE MinOf({indices[i] : i \in 1..Len(indices)})

_get_last_index(entity_mapping_for_type) ==
    LET indices == [i \in 1..Len(entity_mapping_for_type) |->
                        get_index(entity_mapping_for_type[i].val)]
    IN  IF Len(indices) = 0 THEN -1
        ELSE MaxOf({indices[i] : i \in 1..Len(indices)})

\* int() raises ValueError on a stored token whose suffix is not a numeral
IndicesParse(entity_mapping_for_type) ==
    \A i \in 1..Len(entity_mapping_for_type) :
        IsInt(IndexText(entity_mapping_for_type[i].val))

NoError == [error |-> "none", kind |-> "none"]

Returned(value, mapping) ==
    [ok |-> TRUE, raised |-> NoError, value |-> value, mapping |-> mapping]

Raised(error, mapping) ==
    [ok |-> FALSE, raised |-> error, value |-> None, mapping |-> mapping]

\* Mutation of AnonymizerOperate: no lookup of an already mapped text.
NoLookup_AnonymizerOperate(text, entity_type, mapping) ==
    LET entity_mapping_for_type == MappingGet(mapping, entity_type)
    IN  IF entity_type \notin DOMAIN mapping \/ entity_mapping_for_type = EmptyDict
        THEN LET new_text == REPLACING_FORMAT(entity_type, 0)
             IN  Returned(new_text,
                     MappingSet(mapping, entity_type, Put(EmptyDict, text, new_text)))
        ELSE LET previous_index == _get_last_index(entity_mapping_for_type)
                 new_text == REPLACING_FORMAT(entity_type, previous_index + 1)
             IN  Returned(new_text,
                     MappingSet(mapping, entity_type,
                                Put(entity_mapping_for_type, text, new_text)))

AnonymizerOperate(text, entity_type, mapping) ==
    LET entity_mapping_for_type == MappingGet(mapping, entity_type)
    IN  IF entity_type \notin DOMAIN mapping \/ entity_mapping_for_type = EmptyDict
        THEN LET new_text == REPLACING_FORMAT(entity_type, 0)
             IN  Returned(new_text,
                     MappingSet(mapping, entity_type, Put(EmptyDict, text, new_text)))
        ELSE IF text \in Keys(entity_mapping_for_type)
        THEN Returned(Get(entity_mapping_for_type, text), mapping)
        ELSE IF ~IndicesParse(entity_mapping_for_type)
        THEN Raised([error |-> "ValueError", kind |-> "invalid literal for int()"],
                    mapping)
        ELSE LET previous_index == _get_last_index(entity_mapping_for_type)
                 new_text == REPLACING_FORMAT(entity_type, previous_index + 1)
             IN  Returned(new_text,
                     MappingSet(mapping, entity_type,
                                Put(entity_mapping_for_type, text, new_text)))

(***************************************************************************)
(* InstanceCounterDeanonymizer                                             *)
(***************************************************************************)
\* Mutation of _find_key_by_value: the matching val is returned, not its key.
ReturnVal_find_key_by_value(d, value) ==
    LET hits == {i \in 1..Len(d) : d[i].val = value}
    IN  IF hits = {} THEN None
        ELSE d[CHOOSE i \in hits : \A j \in hits : i <= j].val

_find_key_by_value(d, value) ==
    LET hits == {i \in 1..Len(d) : d[i].val = value}
    IN  IF hits = {} THEN None
        ELSE d[CHOOSE i \in hits : \A j \in hits : i <= j].key

\* Mutation of DeanonymizerOperate: the membership test on the tokens is missing.
Unchecked_DeanonymizerOperate(text, entity_type, mapping) ==
    IF entity_type \notin DOMAIN mapping
    THEN Raised([error |-> "ValueError", kind |-> "entity type not found",
                 entity_type |-> entity_type], mapping)
    ELSE Returned(_find_key_by_value(mapping[entity_type], text), mapping)

DeanonymizerOperate(text, entity_type, mapping) ==
    IF entity_type \notin DOMAIN mapping
    THEN Raised([error |-> "ValueError", kind |-> "entity type not found",
                 entity_type |-> entity_type], mapping)
    ELSE IF text \notin DictValues(mapping[entity_type])
    THEN Raised([error |-> "ValueError", kind |-> "text not found",
                 text |-> text, entity_type |-> entity_type], mapping)
    ELSE Returned(_find_key_by_value(mapping[entity_type], text), mapping)

(***************************************************************************)
(* The ticket pipeline: anonymize_ticket, deanonymize_ticket and           *)
(* save_entity_mapping.  The span detector (AnalyzerEngine.analyze) is the *)
(* environment: any spans over the text.  Scores and thresholds are in     *)
(* tenths (6 is 0.6).                                                      *)
(***************************************************************************)
DefaultThreshold == 6

Thresholds == {DefaultThreshold, 9}

Scores == {5, 6, 9}

Docs == {<<"a", "b", "a", "b">>, <<"b", "a", "a">>}

MaxSpans == 2

SpansOf(text) ==
    {span \in [entity_type : EntityTypes, start : 0..(Len(text) - 1),
               end : 1..Len(text), score : Scores] : span.start < span.end}

\* the number common to two spans' ranges (RecognizerResult.intersects)
Intersects(a, b) ==
    LET lo == IF a.start > b.start THEN a.start ELSE b.start
        hi == IF a.end < b.end THEN a.end ELSE b.end
    IN  IF hi > lo THEN hi - lo ELSE 0

Contains(a, b) == a.start <= b.start /\ b.end <= a.end

\* The results the engine's conflict resolution keeps as they are: no span inside
\* another (or equal to it), no two intersecting spans of one type.
Unconflicted(S) ==
    \A a, b \in S :
        a # b => /\ ~Contains(a, b)
                 /\ (a.entity_type = b.entity_type => Intersects(a, b) = 0)

RECURSIVE UnconflictedUpTo(_, _)
UnconflictedUpTo(S, n) ==
    IF n = 0 THEN {{}}
    ELSE LET smaller == UnconflictedUpTo(S, n - 1)
         IN  smaller \cup {T \cup {a} : <<T, a>> \in
                              {x \in smaller \X S : Unconflicted(x[1] \cup {x[2]})}}

\* what the detector may return for each text: at most MaxSpans spans
Detections == [text \in Docs |-> UnconflictedUpTo(SpansOf(text), MaxSpans)]

\* a detector result as a list, leftmost span first
RECURSIVE ByStart(_)
ByStart(S) ==
    IF S = {} THEN <<>>
    ELSE LET first == CHOOSE a \in S : \A b \in S : a.start <= b.start
         IN  <<first>> \o ByStart(S \ {first})

\* text[start:end]
Slice(text, start, end) == SubSeq(text, start + 1, end)

\* Mutation of AboveThreshold: > where the code has >=.
Strict_AboveThreshold(entity, min_score_threshold) ==
    entity.score > min_score_threshold

AboveThreshold(entity, min_score_threshold) ==
    entity.score >= min_score_threshold

\* [entity for entity in all_analysis_results if entity.score >= min_score_threshold]
FilterByScore(results, min_score_threshold) ==
    LET Keep(entity) == AboveThreshold(entity, min_score_threshold)
    IN  SelectSeq(results, Keep)

(***************************************************************************)
(* The engines' pass over the entities (AnonymizerEngine.anonymize and     *)
(* DeanonymizeEngine.deanonymize as called below): entities are taken from *)
(* the rightmost to the leftmost; the operator gets the input text at the  *)
(* entity's range; its result replaces, in the output built so far, the    *)
(* range cut at the start of the previous replacement; each replacement is *)
(* recorded as an item with its place in the final text.                   *)
(***************************************************************************)
Min(a, b) == IF a < b THEN a ELSE b

OperatorCall(operator, text, entity_type, mapping) ==
    IF operator = "entity_counter"
    THEN AnonymizerOperate(text, entity_type, mapping)
    ELSE DeanonymizerOperate(text, entity_type, mapping)

\* one replacement: the operator's result r goes in place of the entity's range
EngineReplace(st, entity, r) ==
    IF ~r.ok
    THEN [st EXCEPT !.ok = FALSE, !.raised = r.raised]
    ELSE LET end_of_text == Min(entity.end, st.last_replacement_index)
             before_text == Slice(st.output_text, 0, entity.start)
             after_text == Slice(st.output_text, end_of_text, Len(st.output_text))
         IN  [ok |-> TRUE,
              raised |-> NoError,
              output_text |-> before_text \o r.value \o after_text,
              last_replacement_index |-> entity.start,
              mapping |-> r.mapping,
              items |-> Append(st.items,
                           [index_from_end |-> Len(after_text),
                            entity_type |-> entity.entity_type,
                            text |-> r.value])]

RECURSIVE EnginePass(_, _, _, _, _)
EnginePass(operator, text, entities, i, st) ==
    IF i > Len(entities) \/ ~st.ok THEN st
    ELSE EnginePass(operator, text, entities, i + 1,
            EngineReplace(st, entities[i],
                OperatorCall(operator,
                             Slice(text, entities[i].start, entities[i].end),
                             entities[i].entity_type, st.mapping)))

\* EngineResult.normalize_item_indexes
NormalizeItems(items, text_len) ==
    [i \in 1..Len(items) |->
        [start |-> text_len - (items[i].index_from_end + Len(items[i].text)),
         end |-> text_len - items[i].index_from_end,
         entity_type |-> items[i].entity_type,
         text |-> items[i].text]]

\* entities with pairwise distinct starts, rightmost first
RECURSIVE Descending(_)
Descending(S) ==
    IF S = {} THEN <<>>
    ELSE LET first == CHOOSE a \in S : \A b \in S : a.start >= b.start
         IN  <<first>> \o Descending(S \ {first})

SeqToSet(q) == {q[i] : i \in 1..Len(q)}

EngineResult(st) ==
    [ok |-> st.ok, raised |-> st.raised, mapping |-> st.mapping,
     text |-> IF st.ok THEN st.output_text ELSE <<>>,
     items |-> IF st.ok THEN NormalizeItems(st.items, Len(st.output_text)) ELSE <<>>]

EngineOperate(operator, text, entities, mapping) ==
    EngineResult(
        EnginePass(operator, text, Descending(SeqToSet(entities)), 1,
            [ok |-> TRUE, raised |-> NoError, output_text |-> text,
             last_replacement_index |-> Len(text), mapping |-> mapping,
             items |-> <<>>]))

\* what anonymize_ticket returns, with its filtered list beside it
TicketResult(ticket_text, min_score_threshold, all_analysis_results, analysis_results, anonymized_result) ==
    [done |-> TRUE,
     ticket_text |-> ticket_text,
     min_score_threshold |-> min_score_threshold,
     analysis_results |-> analysis_results,
     anonymized_result |-> [text |-> anonymized_result.text,
                            items |-> anonymized_result.items],
     entity_mapping |-> anonymized_result.mapping,
     all_analysis_results |-> all_analysis_results]

AnonymizeFiltered(ticket_text, min_score_threshold, all_analysis_results, analysis_results) ==
    TicketResult(ticket_text, min_score_threshold, all_analysis_results,
                 analysis_results,
                 EngineOperate("entity_counter", ticket_text, analysis_results,
                               EmptyMapping))

\* anonymize_ticket with no custom entity file (load_custom_entities gives [])
anonymize_ticket(ticket_text, min_score_threshold, detected) ==
    AnonymizeFiltered(ticket_text, min_score_threshold, detected,
                      FilterByScore(detected, min_score_threshold))

DeanonymizeResult(r) ==
    [done |-> TRUE, ok |-> r.ok, raised |-> r.raised, text |-> r.text,
     mapping |-> r.mapping]

\* Mutation of deanonymize_ticket: no early return on an empty mapping.
NoGuard_deanonymize_ticket(anonymized_result, anonymized_mapping) ==
    DeanonymizeResult(
        EngineOperate("entity_counter_deanonymizer", anonymized_result.text,
                      anonymized_result.items, anonymized_mapping))

deanonymize_ticket(anonymized_result, anonymized_mapping) ==
    IF DOMAIN anonymized_mapping = {}
    THEN [done |-> TRUE, ok |-> TRUE, raised |-> NoError,
          text |-> anonymized_result.text, mapping |-> anonymized_mapping]
    ELSE DeanonymizeResult(
            EngineOperate("entity_counter_deanonymizer", anonymized_result.text,
                          anonymized_result.items, anonymized_mapping))

(***************************************************************************)
(* The operator calls, and deanonymize_ticket, as actions on one shared     *)
(* entity_mapping.                                                         *)
(***************************************************************************)
MaxTokenIndex == 1

MaxLoadedIndex == 9

\* the indices of a store that was not built here: with gaps, up to two digits
LoadedIndices == {0, MaxLoadedIndex}

\* the tokens handed to the deanonymizer: of either type's shape, mapped or not
TokenInputs ==
    {REPLACING_FORMAT(t, n) :
        t \in EntityTypes, n \in (0..MaxTokenIndex) \cup {MaxLoadedIndex}}

\* anonymized results handed to deanonymize_ticket: one token as the whole text
ResultInputs ==
    {[text |-> REPLACING_FORMAT(t, n),
      items |-> <<[start |-> 0, end |-> Len(REPLACING_FORMAT(t, n)),
                   entity_type |-> t, text |-> REPLACING_FORMAT(t, n)]>>] :
        t \in EntityTypes, n \in LoadedIndices}

NoCall == [op |-> "none"]

Idle == [done |-> FALSE]

Anonymize(entity_type, text) ==
    LET r == AnonymizerOperate(text, entity_type, entity_mapping)
    IN  /\ entity_mapping' = r.mapping
        /\ returned' = IF r.ok
                       THEN returned \cup {[entity_type |-> entity_type,
                                            text |-> text, token |-> r.value]}
                       ELSE returned
        /\ last' = [op |-> "anonymize", entity_type |-> entity_type, text |-> text,
                    ok |-> r.ok, raised |-> r.raised, value |-> r.value,
                    known |-> /\ entity_type \in DOMAIN entity_mapping
                              /\ text \in Keys(entity_mapping[entity_type])]
        /\ UNCHANGED <<ticket, restored, snapshot, recognizers>>

Deanonymize(entity_type, text) ==
    LET r == DeanonymizerOperate(text, entity_type, entity_mapping)
    IN  /\ entity_mapping' = r.mapping
        /\ last' = [op |-> "deanonymize", entity_type |-> entity_type, text |-> text,
                    ok |-> r.ok, raised |-> r.raised, value |-> r.value,
                    known |-> FALSE]
        /\ UNCHANGED <<returned, ticket, restored, snapshot, recognizers>>

\* deanonymize_ticket on the shared mapping; the engine hands each item to the
\* deanonymizer
DeanonymizeTicketCall(anonymized_result) ==
    LET r == deanonymize_ticket(anonymized_result, entity_mapping)
    IN  /\ entity_mapping' = r.mapping
        /\ last' = [op |-> "deanonymize_ticket",
                    entity_type |-> anonymized_result.items[1].entity_type,
                    text |-> anonymized_result.text,
                    ok |-> r.ok, raised |-> r.raised, value |-> r.text,
                    known |-> FALSE]
        /\ UNCHANGED <<returned, ticket, restored, snapshot, recognizers>>

AnonymizeStep == \E t \in EntityTypes, v \in Values : Anonymize(t, v)

DeanonymizeStep == \E t \in EntityTypes, tok \in TokenInputs : Deanonymize(t, tok)

DeanonymizeTicketCallStep ==
    \E anonymized_result \in ResultInputs : DeanonymizeTicketCall(anonymized_result)

Init ==
    /\ entity_mapping = EmptyMapping
    /\ returned = {}
    /\ last = NoCall
    /\ ticket = Idle
    /\ restored = Idle
    /\ snapshot = Idle
    /\ recognizers = Idle

Next == AnonymizeStep \/ DeanonymizeStep \/ DeanonymizeTicketCallStep

Spec == Init /\ [][Next]_vars

(***************************************************************************)
(* The same operator calls on a store handed in by the caller (operate     *)
(* takes params["entity_mapping"] as it is): per type no entry, the entry  *)
(* of "a", or the entries of "a" and "b"; tokens of the generated shape,   *)
(* indices with gaps, the two values possibly sharing one token.           *)
(***************************************************************************)
LoadedDicts(t) ==
    LET toks == {REPLACING_FORMAT(t, n) : n \in LoadedIndices}
    IN  {EmptyDict}
        \cup {<<[key |-> <<"a">>, val |-> v]>> : v \in toks}
        \cup {<<[key |-> <<"a">>, val |-> v1], [key |-> <<"b">>, val |-> v2]>> :
                v1 \in toks, v2 \in toks}

DistinctKeys(d) == \A i, j \in 1..Len(d) : d[i].key = d[j].key => i = j

LoadedMappings ==
    UNION {{m \in [S -> UNION {LoadedDicts(t) : t \in S}] :
                \A t \in S : m[t] \in LoadedDicts(t) /\ DistinctKeys(m[t])} :
           S \in SUBSET EntityTypes}

InitLoaded ==
    /\ entity_mapping \in LoadedMappings
    /\ returned = {}
    /\ last = NoCall
    /\ ticket = Idle
    /\ restored = Idle
    /\ snapshot = Idle
    /\ recognizers = Idle

SpecLoaded == InitLoaded /\ [][Next]_vars

TicketDone(r) ==
    /\ ticket' = r
    /\ entity_mapping' = r.entity_mapping

\* main() runs the pipeline on one ticket
AnonymizeTicket(ticket_text, min_score_threshold, detected) ==
    /\ ~ticket.done
    /\ TicketDone(anonymize_ticket(ticket_text, min_score_threshold, detected))
    /\ last' = [op |-> "anonymize_ticket", ticket_text |-> ticket_text,
                min_score_threshold |-> min_score_threshold, detected |-> detected]
    /\ UNCHANGED <<returned, restored, snapshot, recognizers>>

\* The mapping handed to deanonymize_ticket: the one anonymize_ticket returned,
\* an empty one, or one that holds the PERSON entries only.
MappingChoices == {"returned", "empty", "person_only"}

ChosenMapping(which) ==
    IF which = "returned" THEN entity_mapping
    ELSE IF which = "empty" THEN EmptyMapping
    ELSE [t \in (DOMAIN entity_mapping) \cap {PERSON} |-> entity_mapping[t]]

RestoreDone(r, which, handed) ==
    /\ restored' = [done |-> TRUE, ok |-> r.ok, raised |-> r.raised,
                    text |-> r.text, which |-> which,
                    empty_mapping |-> (DOMAIN handed = {})]
    /\ entity_mapping' = IF which = "returned" THEN r.mapping ELSE entity_mapping

DeanonymizeTicket(which) ==
    /\ ticket.done
    /\ RestoreDone(deanonymize_ticket(ticket.anonymized_result, ChosenMapping(which)),
                   which, ChosenMapping(which))
    /\ UNCHANGED <<returned, last, ticket, snapshot, recognizers>>

AnonymizeTicketStep ==
    \E text \in Docs, threshold \in Thresholds :
        \E S \in Detections[text] : AnonymizeTicket(text, threshold, ByStart(S))

DeanonymizeTicketStep == \E which \in MappingChoices : DeanonymizeTicket(which)

NextTicket == AnonymizeTicketStep \/ DeanonymizeTicketStep

SpecTicket == Init /\ [][NextTicket]_vars

(***************************************************************************)
(* save_entity_mapping                                                     *)
(***************************************************************************)
Absent == [given |-> FALSE, value |-> <<>>]

Given(value) == [given |-> TRUE, value |-> value]

\* `if x`: neither None nor empty
Truthy(arg) == arg.given /\ Len(arg.value) > 0

\* Mutation of SaveLoopBody: the counter is incremented for every entity.
CountAll_SaveLoopBody(acc, entity, original_text, min_score_threshold) ==
    LET entity_text == Slice(original_text, entity.start, entity.end)
    IN  IF AboveThreshold(entity, min_score_threshold)
        THEN [entities_above_threshold |-> acc.entities_above_threshold + 1,
              analyzed_entities |->
                  Append(acc.analyzed_entities,
                         [entity_type |-> entity.entity_type,
                          entity_text |-> entity_text,
                          score |-> entity.score])]
        ELSE [acc EXCEPT !.entities_above_threshold = @ + 1]

\* the body of `for entity in analyzed_entities`
SaveLoopBody(acc, entity, original_text, min_score_threshold) ==
    LET entity_text == Slice(original_text, entity.start, entity.end)
    IN  IF AboveThreshold(entity, min_score_threshold)
        THEN [entities_above_threshold |-> acc.entities_above_threshold + 1,
              analyzed_entities |->
                  Append(acc.analyzed_entities,
                         [entity_type |-> entity.entity_type,
                          entity_text |-> entity_text,
                          score |-> entity.score])]
        ELSE acc

RECURSIVE SaveLoop(_, _, _, _, _)
SaveLoop(acc, analyzed_entities, i, original_text, min_score_threshold) ==
    IF i > Len(analyzed_entities) THEN acc
    ELSE SaveLoop(SaveLoopBody(acc, analyzed_entities[i], original_text,
                               min_score_threshold),
                  analyzed_entities, i + 1, original_text, min_score_threshold)

\* output_data["mappings"][entity_type][original] = anonymized, entry by entry
RECURSIVE CopyEntries(_, _, _)
CopyEntries(out, entities, i) ==
    IF i > Len(entities) THEN out
    ELSE CopyEntries(Put(out, entities[i].key, entities[i].val), entities, i + 1)

CopyMappings(mapping) ==
    [entity_type \in DOMAIN mapping |->
        CopyEntries(EmptyDict, mapping[entity_type], 1)]

OutputData(mapping, analyzed_entities, min_score_threshold, processed) ==
    [mappings |-> CopyMappings(mapping),
     analyzed_entities |-> processed.analyzed_entities,
     metadata |->
        [min_score_threshold |-> min_score_threshold,
         total_entities_detected |->
            IF Truthy(analyzed_entities) THEN Len(analyzed_entities.value) ELSE 0,
         entities_above_threshold |-> processed.entities_above_threshold]]

\* the snapshot save_entity_mapping builds; io_ok is whether the file was written
save_entity_mapping(mapping, analyzed_entities, original_text, min_score_threshold, io_ok) ==
    [done |-> TRUE,
     result |-> io_ok,
     output_data |->
        OutputData(mapping, analyzed_entities, min_score_threshold,
            IF Truthy(analyzed_entities) /\ Truthy(original_text)
            THEN SaveLoop([entities_above_threshold |-> 0, analyzed_entities |-> <<>>],
                          analyzed_entities.value, 1, original_text.value,
                          min_score_threshold)
            ELSE [entities_above_threshold |-> 0, analyzed_entities |-> <<>>])]

SaveEntityMapping(analyzed_entities, original_text, min_score_threshold, io_ok) ==
    /\ snapshot' = save_entity_mapping(entity_mapping, analyzed_entities,
                                       original_text, min_score_threshold, io_ok)
    /\ UNCHANGED <<entity_mapping, returned, last, ticket, restored, recognizers>>

\* main() saves once what anonymize_ticket returned; other callers pass less
SaveEntityMappingStep ==
    /\ ticket.done
    /\ ~snapshot.done
    /\ \E analyzed_entities \in {Absent, Given(<<>>),
                                 Given(ticket.all_analysis_results),
                                 Given(ticket.analysis_results)},
          original_text \in {Absent, Given(<<>>), Given(ticket.ticket_text)},
          min_score_threshold \in Thresholds,
          io_ok \in BOOLEAN :
            SaveEntityMapping(analyzed_entities, original_text, min_score_threshold,
                              io_ok)

NextSave == AnonymizeTicketStep \/ SaveEntityMappingStep

SpecSave == Init /\ [][NextSave]_vars

(***************************************************************************)
(* The recognizer builders: create_custom_recognizers (sanitization.py)    *)
(* and create_recognizers (entity-finder.py).  A custom entity record is a *)
(* dict with any of the keys entity_name, patterns, score and context.  A  *)
(* key that is absent has has_<key> FALSE and an empty value.              *)
(***************************************************************************)
MaxEntities == 2

EntityNames == {<<"A", "C", "C">>, <<"E", "M", "P">>}

PatternLists == {<<>>, <<"r1">>, <<"r1", "r2">>}

EntityRecords ==
    {r \in [has_entity_name : BOOLEAN, entity_name : EntityNames \cup {<<>>},
            has_patterns : BOOLEAN, patterns : PatternLists,
            has_score : BOOLEAN, score : {0, 8}, has_context : BOOLEAN] :
        /\ r.has_entity_name <=> r.entity_name # <<>>
        /\ ~r.has_patterns => r.patterns = <<>>
        /\ r.has_score <=> r.score # 0}

RECURSIVE ListsUpTo(_, _)
ListsUpTo(S, n) ==
    IF n = 0 THEN {<<>>}
    ELSE LET shorter == ListsUpTo(S, n - 1)
         IN  shorter \cup {Append(q, x) : q \in shorter, x \in S}

EntityLists == ListsUpTo(EntityRecords, MaxEntities)

NoException == "none"

\* entity[key]: KeyError on a missing key
Subscript(entity, has_key) == IF ~has_key THEN "KeyError" ELSE NoException

FirstException(attempts) ==
    IF \A i \in 1..Len(attempts) : attempts[i] = NoException THEN NoException
    ELSE attempts[CHOOSE i \in 1..Len(attempts) :
                    /\ attempts[i] # NoException
                    /\ \A j \in 1..(i - 1) : attempts[j] = NoException]

\* PatternRecognizer(...) refuses an empty pattern list
PatternRecognizerInit(patterns) ==
    IF Len(patterns) = 0 THEN "ValueError" ELSE NoException

\* the try block of create_custom_recognizers: the exception it ends with
TryCreateCustom(entity) ==
    FirstException(
        <<Subscript(entity, entity.has_patterns)>>
        \o (IF Len(entity.patterns) > 0
            THEN <<Subscript(entity, entity.has_entity_name),
                   Subscript(entity, entity.has_score)>>
            ELSE <<>>)
        \o <<Subscript(entity, entity.has_entity_name),
             PatternRecognizerInit(entity.patterns)>>)

CustomLoopBody(acc, entity, exception) ==
    IF exception = NoException
    THEN [acc EXCEPT !.recognizers = Append(@, entity.entity_name)]
    ELSE IF Subscript(entity, entity.has_entity_name) = NoException
    THEN [acc EXCEPT !.reported = Append(@, entity.entity_name)]
    ELSE [acc EXCEPT !.returned = FALSE,
                     !.raised = Subscript(entity, entity.has_entity_name)]

RECURSIVE CustomLoop(_, _, _)
CustomLoop(acc, entities, i) ==
    IF i > Len(entities) \/ ~acc.returned THEN acc
    ELSE CustomLoop(CustomLoopBody(acc, entities[i], TryCreateCustom(entities[i])),
                    entities, i + 1)

create_custom_recognizers(entities) ==
    CustomLoop([returned |-> TRUE, raised |-> NoException, recognizers |-> <<>>,
                reported |-> <<>>], entities, 1)

\* one PatternRecognizer(...) call of create_recognizers: the exception it ends with
TryCreate(entity) ==
    FirstException(
        <<Subscript(entity, entity.has_entity_name),
          Subscript(entity, entity.has_patterns)>>
        \o (IF Len(entity.patterns) > 0
            THEN <<Subscript(entity, entity.has_score)>>
            ELSE <<>>)
        \o <<Subscript(entity, entity.has_context),
             PatternRecognizerInit(entity.patterns)>>)

PlainLoopBody(acc, entity, exception) ==
    IF exception = NoException
    THEN [acc EXCEPT !.recognizers = Append(@, entity.entity_name)]
    ELSE [acc EXCEPT !.returned = FALSE, !.raised = exception]

RECURSIVE PlainLoop(_, _, _)
PlainLoop(acc, entities, i) ==
    IF i > Len(entities) \/ ~acc.returned THEN acc
    ELSE PlainLoop(PlainLoopBody(acc, entities[i], TryCreate(entities[i])),
                   entities, i + 1)

create_recognizers(entities) ==
    PlainLoop([returned |-> TRUE, raised |-> NoException, recognizers |-> <<>>,
               reported |-> <<>>], entities, 1)

RecognizersDone(function, entities, r) ==
    recognizers' = [done |-> TRUE, function |-> function, entities |-> entities,
                    returned |-> r.returned, raised |-> r.raised,
                    recognizers |-> IF r.returned THEN r.recognizers ELSE <<>>,
                    reported |-> r.reported]

CreateCustomRecognizers(entities) ==
    /\ ~recognizers.done
    /\ RecognizersDone("create_custom_recognizers", entities,
                       create_custom_recognizers(entities))
    /\ UNCHANGED <<entity_mapping, returned, last, ticket, restored, snapshot>>

CreateRecognizers(entities) ==
    /\ ~recognizers.done
    /\ RecognizersDone("create_recognizers", entities, create_recognizers(entities))
    /\ UNCHANGED <<entity_mapping, returned, last, ticket, restored, snapshot>>

CreateCustomRecognizersStep == \E entities \in EntityLists : CreateCustomRecognizers(entities)

CreateRecognizersStep == \E entities \in EntityLists : CreateRecognizers(entities)

NextRecognizers == CreateCustomRecognizersStep \/ CreateRecognizersStep

SpecRecognizers == Init /\ [][NextRecognizers]_vars

(***************************************************************************)
(* Claims about the mapping store.                                         *)
(***************************************************************************)
\* the values an anonymizer call was given under entity type t
SeenUnder(t) == {r.text : r \in {x \in returned : x.entity_type = t}}

\* the index a generated token carries, read off the format and not parsed
IndexOfToken(tok) ==
    CHOOSE n \in 0..(MaxLoadedIndex + Cardinality(Values) + 1) :
        \E t \in EntityTypes : tok = REPLACING_FORMAT(t, n)

\* C1: from an empty mapping, under every entity type the tokens are pairwise
\* distinct, their indices are exactly 0..k-1 for the k distinct values assigned
\* under the type, and the i-th value first seen holds index i-1.
C1_UniqueDenseIndices ==
    \A t \in EntityTypes :
        LET d == IF t \in DOMAIN entity_mapping THEN entity_mapping[t] ELSE EmptyDict
            k == Cardinality(SeenUnder(t))
        IN  /\ Len(d) = k
            /\ Keys(d) = SeenUnder(t)
            /\ \A i, j \in 1..Len(d) : d[i].val = d[j].val => i = j
            /\ {IndexOfToken(d[i].val) : i \in 1..Len(d)} = 0..(k - 1)
            /\ \A i \in 1..Len(d) : d[i].val = REPLACING_FORMAT(t, i - 1)

C1_Witness ==
    /\ DOMAIN entity_mapping = EntityTypes
    /\ Len(entity_mapping[PERSON]) = 3
    /\ Len(entity_mapping[PHONE_NUMBER]) = 3
    /\ last.op = "anonymize" /\ last.entity_type = PERSON /\ ~last.known

\* C2: an anonymizer call on an already mapped (type, text) returns the stored
\* token and leaves the whole mapping as it was, and all calls ever made with one
\* (type, text) returned one and the same token.
C2_ReturnedOnce ==
    \A r1, r2 \in returned :
        (r1.entity_type = r2.entity_type /\ r1.text = r2.text) => r1.token = r2.token

C2_RepeatStep ==
    (last'.op = "anonymize" /\ last'.known) =>
        /\ last'.ok
        /\ entity_mapping' = entity_mapping
        /\ last'.value = Get(entity_mapping[last'.entity_type], last'.text)

C2_Idempotent == [](C2_ReturnedOnce) /\ [][C2_RepeatStep]_vars

\* a repeated call whose text is not the newest entry: others came in between
C2_Witness ==
    /\ last.op = "anonymize" /\ last.known
    /\ [entity_type |-> last.entity_type, text |-> last.text, token |-> last.value]
            \in returned
    /\ LET d == entity_mapping[last.entity_type]
       IN  Len(d) = 3 /\ d[1].key = last.text
    /\ DOMAIN entity_mapping = EntityTypes

\* C4: the deanonymizer raises an error naming the type when the type is not in
\* the mapping, another error naming the token and the type when no value of the
\* type maps to the token, and otherwise returns a key of the mapping that maps
\* to the token; the mapping is the same after the call in all three cases.
C4_DeanonymizeStep ==
    (last'.op = "deanonymize") =>
        LET t == last'.entity_type
            tok == last'.text
        IN  /\ entity_mapping' = entity_mapping
            /\ IF t \notin DOMAIN entity_mapping
               THEN /\ ~last'.ok
                    /\ last'.raised = [error |-> "ValueError",
                                       kind |-> "entity type not found",
                                       entity_type |-> t]
               ELSE IF \A i \in 1..Len(entity_mapping[t]) : entity_mapping[t][i].val # tok
               THEN /\ ~last'.ok
                    /\ last'.raised = [error |-> "ValueError", kind |-> "text not found",
                                       text |-> tok, entity_type |-> t]
               ELSE /\ last'.ok
                    /\ last'.value # None
                    /\ last'.value \in Keys(entity_mapping[t])
                    /\ Get(entity_mapping[t], last'.value) = tok

C4_UnknownTokenSafety == [][C4_DeanonymizeStep]_vars

C4_Witness ==
    /\ last.op = "deanonymize"
    /\ last.raised.kind = "text not found"
    /\ last.entity_type \in DOMAIN entity_mapping
    /\ entity_mapping[last.entity_type] # EmptyDict

\* C9: an anonymizer call on a text not yet mapped under its type returns the
\* token whose index is 1 + the largest index carried by the tokens stored under
\* the type (0 when the type is absent or holds no entry), whatever the number of
\* entries, and that token is none of those stored under the type.
C9_NewIndexStep ==
    (last'.op = "anonymize" /\ ~last'.known) =>
        LET t == last'.entity_type
            d == IF t \in DOMAIN entity_mapping THEN entity_mapping[t] ELSE EmptyDict
            stored == {IndexOfToken(d[i].val) : i \in 1..Len(d)}
            next == IF stored = {} THEN 0 ELSE 1 + MaxOf(stored)
        IN  /\ last'.ok
            /\ last'.value = REPLACING_FORMAT(t, next)
            /\ last'.value \notin DictValues(d)
            /\ Get(entity_mapping'[t], last'.text) = last'.value

C9_IndexDerivation == [][C9_NewIndexStep]_vars

\* a store holding the indices {0, 9} under PHONE_NUMBER got index 10, not 2, for
\* its third entry
C9_Witness ==
    /\ last.op = "anonymize" /\ ~last.known /\ last.entity_type = PHONE_NUMBER
    /\ last.value = REPLACING_FORMAT(PHONE_NUMBER, MaxLoadedIndex + 1)
    /\ Len(entity_mapping[PHONE_NUMBER]) = 3
    /\ entity_mapping[PHONE_NUMBER][1].val = REPLACING_FORMAT(PHONE_NUMBER, 0)
    /\ entity_mapping[PHONE_NUMBER][2].val = REPLACING_FORMAT(PHONE_NUMBER, MaxLoadedIndex)

\* C10: an anonymizer call leaves the mapping as it was or adds one entry under
\* its own type, keeping every entry there was, in place, and every other type's
\* entries; a deanonymizer call and a deanonymize_ticket call leave the mapping
\* as it was, whether they return or raise.
C10_FrameStep ==
    /\ (last'.op = "anonymize") =>
            LET t == last'.entity_type
                d == IF t \in DOMAIN entity_mapping THEN entity_mapping[t] ELSE EmptyDict
            IN  /\ DOMAIN entity_mapping \subseteq DOMAIN entity_mapping'
                /\ DOMAIN entity_mapping' \subseteq (DOMAIN entity_mapping) \cup {t}
                /\ \A u \in DOMAIN entity_mapping :
                        u # t => entity_mapping'[u] = entity_mapping[u]
                /\ \/ entity_mapping' = entity_mapping
                   \/ /\ entity_mapping'[t] =
                            Append(d, [key |-> last'.text, val |-> last'.value])
                      /\ last'.text \notin Keys(d)
    /\ (last'.op \in {"deanonymize", "deanonymize_ticket"}) =>
            entity_mapping' = entity_mapping

C10_InsertOnly == [][C10_FrameStep]_vars

C10_Witness ==
    /\ last.op = "anonymize" /\ ~last.known /\ last.ok
    /\ DOMAIN entity_mapping = EntityTypes
    /\ \A t \in EntityTypes : Len(entity_mapping[t]) >= 2

(***************************************************************************)
(* Claims about the ticket pipeline.                                       *)
(***************************************************************************)
Disjoint(a, b) == a.end <= b.start \/ b.end <= a.start

PairwiseDisjoint(S) == \A a, b \in S : a # b => Disjoint(a, b)

Above(spans, threshold) == {e \in SeqToSet(spans) : e.score >= threshold}

Below(spans, threshold) == {e \in SeqToSet(spans) : e.score < threshold}

\* by how much the token of span e is longer than the text it replaces
Growth(e) ==
    Len(Get(entity_mapping[e.entity_type], Slice(ticket.ticket_text, e.start, e.end)))
        - (e.end - e.start)

RECURSIVE GrowthSum(_)
GrowthSum(S) ==
    IF S = {} THEN 0
    ELSE LET x == CHOOSE y \in S : TRUE
         IN  Growth(x) + GrowthSum(S \ {x})

\* where the text at `position` of the ticket lies in the anonymized text, when
\* the replaced spans are pairwise disjoint and none covers the position
Shifted(position) ==
    position + GrowthSum({e \in Above(ticket.all_analysis_results,
                                       ticket.min_score_threshold) :
                            e.end <= position})

\* reverse_lookup(T, assign(T, V)) = V for every entry the pass made
ReverseLookupHolds ==
    \A t \in DOMAIN entity_mapping :
        \A i \in 1..Len(entity_mapping[t]) :
            LET r == DeanonymizerOperate(entity_mapping[t][i].val, t, entity_mapping)
            IN  r.ok /\ r.value = entity_mapping[t][i].key

\* C3 as stated: for any set of detected spans, deanonymizing the anonymized
\* ticket with the mapping anonymize_ticket returned gives the ticket's text back.
C3_RoundTripAnySpans ==
    (restored.done /\ restored.which = "returned") =>
        (restored.ok /\ restored.text = ticket.ticket_text)

\* C3 amended: when no two spans with score >= threshold overlap, deanonymizing
\* the anonymized ticket with the mapping anonymize_ticket returned gives the
\* ticket's text back; every token of the mapping looks up to the value it was
\* assigned to; and the text of a span below the threshold that overlaps no span
\* at or above it stands unaltered in the anonymized text.
C3_RoundTrip ==
    ticket.done =>
        LET above == Above(ticket.all_analysis_results, ticket.min_score_threshold)
            below == Below(ticket.all_analysis_results, ticket.min_score_threshold)
        IN  /\ ReverseLookupHolds
            /\ PairwiseDisjoint(above) =>
                /\ (restored.done /\ restored.which = "returned") =>
                        (restored.ok /\ restored.text = ticket.ticket_text)
                /\ \A e \in below :
                        (\A a \in above : Disjoint(a, e)) =>
                            Slice(ticket.anonymized_result.text,
                                  Shifted(e.start), Shifted(e.start) + (e.end - e.start))
                                = Slice(ticket.ticket_text, e.start, e.end)

\* "abab" with "ab" detected twice at or above the threshold, restored
C3_Witness ==
    /\ restored.done /\ restored.which = "returned" /\ restored.ok
    /\ restored.text = ticket.ticket_text
    /\ ticket.ticket_text = <<"a", "b", "a", "b">>
    /\ Len(ticket.analysis_results) = 2
    /\ PairwiseDisjoint(SeqToSet(ticket.analysis_results))
    /\ ticket.anonymized_result.text # ticket.ticket_text
    /\ \E t \in DOMAIN entity_mapping : Len(entity_mapping[t]) = 1

\* C5: deanonymize_ticket with an empty mapping returns the anonymized text as it
\* is and raises nothing, also when the text holds tokens.
C5_EmptyMappingNoOp ==
    (restored.done /\ restored.empty_mapping) =>
        /\ restored.ok
        /\ restored.raised = NoError
        /\ restored.text = ticket.anonymized_result.text

HasSubSeq(text, piece) ==
    \E i \in 0..(Len(text) - Len(piece)) : Slice(text, i, i + Len(piece)) = piece

C5_Witness ==
    /\ restored.done /\ restored.empty_mapping /\ restored.which = "empty"
    /\ HasSubSeq(restored.text, REPLACING_FORMAT(PERSON, 0))
    /\ Len(ticket.anonymized_result.items) > 0

\* C6: anonymize_ticket returns all the detected spans, unfiltered; the spans it
\* anonymizes are exactly those with score >= min_score_threshold, in their
\* order, so no more than the detected ones; and the mapping holds an entry for
\* the text of each of those spans and no other entry.
IsSubSeq(q, full) ==
    \E keep \in SUBSET (1..Len(full)) :
        /\ Cardinality(keep) = Len(q)
        /\ \A i \in 1..Len(q) :
                q[i] = full[CHOOSE k \in keep : Cardinality({j \in keep : j <= k}) = i]

C6_ThresholdFiltering ==
    (ticket.done /\ last.op = "anonymize_ticket") =>
        LET above == Above(last.detected, ticket.min_score_threshold)
        IN  /\ ticket.all_analysis_results = last.detected
            /\ SeqToSet(ticket.analysis_results) = above
            /\ IsSubSeq(ticket.analysis_results, last.detected)
            /\ Len(ticket.analysis_results) <= Len(ticket.all_analysis_results)
            /\ \A i \in 1..Len(ticket.analysis_results) :
                    ticket.analysis_results[i].score >= ticket.min_score_threshold
            /\ Len(ticket.anonymized_result.items) = Len(ticket.analysis_results)
            /\ DOMAIN entity_mapping = {e.entity_type : e \in above}
            /\ \A t \in DOMAIN entity_mapping :
                    Keys(entity_mapping[t]) =
                        {Slice(ticket.ticket_text, e.start, e.end) :
                            e \in {x \in above : x.entity_type = t}}

\* one span at the threshold is anonymized, one below it is only reported
C6_Witness ==
    /\ ticket.done /\ last.op = "anonymize_ticket"
    /\ Len(ticket.all_analysis_results) = 2
    /\ Len(ticket.analysis_results) = 1
    /\ ticket.analysis_results[1].score = ticket.min_score_threshold
    /\ Len(ticket.anonymized_result.items) = 1

\* C7: in the snapshot, entities_above_threshold is the length of the listed
\* entities and at most total_entities_detected, every listed entity has a score
\* >= the threshold, and "mappings" holds the mapping's entries, all and only.
C7_SnapshotCounts ==
    snapshot.done =>
        LET out == snapshot.output_data
        IN  /\ out.metadata.entities_above_threshold = Len(out.analyzed_entities)
            /\ out.metadata.entities_above_threshold
                    <= out.metadata.total_entities_detected
            /\ \A i \in 1..Len(out.analyzed_entities) :
                    out.analyzed_entities[i].score >= out.metadata.min_score_threshold
            /\ DOMAIN out.mappings = DOMAIN entity_mapping
            /\ \A t \in DOMAIN entity_mapping : out.mappings[t] = entity_mapping[t]

\* detected spans on both sides of the threshold, saved with the ticket's text
C7_Witness ==
    /\ snapshot.done
    /\ snapshot.output_data.metadata.total_entities_detected = 2
    /\ snapshot.output_data.metadata.entities_above_threshold = 1
    /\ Len(snapshot.output_data.analyzed_entities) = 1
    /\ DOMAIN snapshot.output_data.mappings # {}

(***************************************************************************)
(* Claims about the recognizer builders.                                   *)
(***************************************************************************)
\* a record with a name, a non-empty list of patterns and a score
WellFormed(entity) ==
    /\ entity.has_entity_name
    /\ entity.has_patterns /\ Len(entity.patterns) > 0
    /\ entity.has_score

WellFormedNames(entities) ==
    LET Good(entity) == WellFormed(entity)
        good == SelectSeq(entities, Good)
    IN  [i \in 1..Len(good) |-> good[i].entity_name]

\* C8: for every list of entity records the builder returns, with a recognizer
\* for each well-formed record of the list, in the list's order, whatever
\* malformed records stand before or after it.
C8_MalformedSkipped ==
    recognizers.done =>
        /\ recognizers.returned
        /\ recognizers.recognizers = WellFormedNames(recognizers.entities)

\* C8 for create_custom_recognizers alone and records that hold an entity_name:
\* the part of the claim the except clause delivers.
C8_NamedRecordsSkipped ==
    (/\ recognizers.done
     /\ recognizers.function = "create_custom_recognizers"
     /\ \A i \in 1..Len(recognizers.entities) :
            recognizers.entities[i].has_entity_name)
    =>  /\ recognizers.returned
        /\ recognizers.recognizers = WellFormedNames(recognizers.entities)
        /\ Len(recognizers.reported) + Len(recognizers.recognizers)
                = Len(recognizers.entities)

\* a record with no entity_name in front of a well-formed one: nothing is returned
C8_Witness ==
    /\ recognizers.done
    /\ recognizers.function = "create_custom_recognizers"
    /\ Len(recognizers.entities) = 2
    /\ ~recognizers.entities[1].has_entity_name
    /\ WellFormed(recognizers.entities[2])
    /\ ~recognizers.returned

====
